---- MODULE Spec2Model ----
(***************************************************************************)
(* Resilient data-fetch and normalization layer of the movie app:          *)
(*   src/api/tmdb.ts          primary data client                          *)
(*   src/api/supabaseApi.ts   secondary data client (safeQuery)            *)
(*   src/lib/supabase.ts      isSupabaseConfigured                         *)
(*   src/utils/movie.ts       schema mapper                                *)
(*   src/hooks/useMovies.ts   useMovieList, useMovieDetails,               *)
(*                            useSearchMovies, useHomeData                 *)
(*   src/hooks/useSupabaseMovies.ts  the store-backed hooks                *)
(*   app/movie/[id].tsx       MovieDetailsScreen                           *)
(*                                                                         *)
(* Each hook instance owns its state and shares nothing with the others,   *)
(* so a behaviour follows one hook instance, chosen in Init (hook).        *)
(* Promises are modelled by their outcome records, timers and requests in  *)
(* flight by sets of records, an await by the action that continues it.    *)
(***************************************************************************)
EXTENDS Integers, Sequences, FiniteSets, TLC

\* ------------------------------------------------------------------ bounds
\* fetch cycles one hook instance starts after its mount (refetch, loadMore,
\* parameter change)
MaxFetch == 2

\* ------------------------------------------------------------- basic values
\* null of a nullable string (error: string | null)
NULL == "null"

\* T | null for objects and numbers: the empty sequence is null
None == <<>>
Some(v) == <<v>>

\* a promise's outcome
Resolve(v) == [status |-> "fulfilled", value |-> v]
Reject(e) == [status |-> "rejected", reason |-> e]

\* results[0] || null
First(results) == IF Len(results) > 0 THEN Some(results[1]) ELSE None

\* a || b that never falls through to b
OrElseFirstOnly(a, b) == a

\* a || b on nullable objects
OrElse(a, b) == IF a # None THEN a ELSE b

\* query texts are sequences of characters
RECURSIVE TrimStart(_)
TrimStart(s) == IF s # <<>> /\ Head(s) = " " THEN TrimStart(Tail(s)) ELSE s

RECURSIVE TrimEnd(_)
TrimEnd(s) ==
    IF s # <<>> /\ s[Len(s)] = " " THEN TrimEnd(SubSeq(s, 1, Len(s) - 1)) ELSE s

\* String.prototype.trim
Trim(s) == TrimEnd(TrimStart(s))

\* !query instead of !query.trim(): only the empty text counts as blank
IsBlankEmptyOnly(s) == s = <<>>

\* !s.trim()
IsBlank(s) == Trim(s) = <<>>

\* the texts a caller passes: "", " ", "a", "ab", " a"
Texts == {<<>>, <<" ">>, <<"a">>, <<"a", "b">>, <<" ", "a">>}

\* ------------------------------------------------------------ schema mapper
\* Strings that are hashed or parsed are sequences of character codes.
IsDigit(c) == c >= 48 /\ c <= 57

RECURSIVE DecimalValue(_)
DecimalValue(s) ==
    IF s = <<>> THEN 0
    ELSE DecimalValue(SubSeq(s, 1, Len(s) - 1)) * 10 + (s[Len(s)] - 48)

\* Number.isFinite(Number(value)), for strings of digits and letters other
\* than the ones of a numeric literal: the empty string and digit strings parse
IsNumericString(s) == \A i \in 1..Len(s) : IsDigit(s[i])

\* ((hash << 5) - hash + code) | 0: 31 * hash + code truncated to a signed
\* 32-bit integer, computed on the 16-bit halves of the two's complement of hash
HashStep(hash, code) ==
    LET hi == (hash \div 65536) % 65536
        lo == hash % 65536
        lo2 == lo * 31 + code
        hi2 == (hi * 31 + (lo2 \div 65536)) % 65536
    IN  IF hi2 >= 32768
        THEN (hi2 - 65536) * 65536 + (lo2 % 65536)
        ELSE hi2 * 65536 + (lo2 % 65536)

RECURSIVE HashFold(_, _)
HashFold(s, h) ==
    IF s = <<>> THEN h
    ELSE HashFold(Tail(s), HashStep(h, Head(s)))

\* the hash returned without Math.abs
AbsMissing(x) == x

\* Math.abs
Abs(x) == IF x < 0 THEN -x ELSE x

toNumericId(value) ==
    IF IsNumericString(value) THEN DecimalValue(value)
    ELSE Abs(HashFold(value, 0))

\* a nullable field ?? default
Coalesce(opt, default) == IF opt = None THEN default ELSE opt[1]

\* String(n) of an integer, as character codes
RECURSIVE FormatNumber(_)
FormatNumber(n) ==
    IF n < 0 THEN <<45>> \o FormatNumber(-n)
    ELSE IF n < 10 THEN <<48 + n>>
    ELSE FormatNumber(n \div 10) \o <<48 + (n % 10)>>

\* movie.release_year ? `${movie.release_year}-01-01` : '': release_year is
\* tested for truthiness, so null and 0 both give the empty string
ReleaseDate(release_year) ==
    IF release_year # None /\ release_year[1] # 0
    THEN FormatNumber(release_year[1]) \o <<45, 48, 49, 45, 48, 49>>
    ELSE <<>>

\* release_date.split('-')[0]: the text before the first hyphen
RECURSIVE YearPart(_)
YearPart(date) ==
    IF date = <<>> \/ Head(date) = 45 THEN <<>>
    ELSE <<Head(date)>> \o YearPart(Tail(date))

mapSupabaseMovieToTmdb(movie) ==
    [id |-> toNumericId(movie.id),
     title |-> movie.title,
     original_title |-> movie.title,
     overview |-> Coalesce(movie.description, ""),
     poster_path |-> movie.poster_url,
     backdrop_path |-> movie.backdrop_url,
     release_date |-> ReleaseDate(movie.release_year),
     vote_average |-> Coalesce(movie.rating, 0),
     vote_count |-> 0,
     popularity |-> Coalesce(movie.rating, 0),
     source |-> "supabase",
     sourceId |-> movie.id]

mapSupabaseMoviesToTmdb(movies) ==
    [i \in 1..Len(movies) |-> mapSupabaseMovieToTmdb(movies[i])]

\* genres listed in the reverse of the categories' order
mapCategoriesToGenresReversed(categories) ==
    LET list == Coalesce(categories, <<>>)
    IN  [i \in 1..Len(list) |->
            [id |-> toNumericId(list[Len(list) + 1 - i].id),
             name |-> list[Len(list) + 1 - i].name]]

\* (categories ?? []).map(...): categories is None when the argument is absent
mapCategoriesToGenres(categories) ==
    LET list == Coalesce(categories, <<>>)
    IN  [i \in 1..Len(list) |->
            [id |-> toNumericId(list[i].id), name |-> list[i].name]]

\* {...mapSupabaseMovieToTmdb(movie), budget: 0, genres: ..., ...}
mapSupabaseMovieToTmdbDetails(movie, categories) ==
    [budget |-> 0,
     genres |-> mapCategoriesToGenres(categories),
     homepage |-> None,
     imdb_id |-> None,
     revenue |-> 0,
     runtime |-> movie.duration,
     status |-> "Released",
     tagline |-> None] @@ mapSupabaseMovieToTmdb(movie)

\* a primary-source movie: no source tag, no sourceId (both undefined)
TmdbMovie(n) ==
    [id |-> n,
     title |-> <<"p">>,
     original_title |-> <<"p">>,
     overview |-> "",
     poster_path |-> None,
     backdrop_path |-> None,
     release_date |-> <<50, 48, 50, 48, 45, 48, 49, 45, 48, 49>>,
     vote_average |-> 7,
     vote_count |-> 1,
     popularity |-> 7,
     source |-> "undefined",
     sourceId |-> <<>>]

\* rows of the store's movies table
StoreMovie(sid, year, desc) ==
    [id |-> sid, title |-> <<"s">>, description |-> desc, poster_url |-> None,
     backdrop_url |-> None, release_year |-> year, rating |-> Some(8),
     duration |-> None]

\* id "7" parses as a number, id "ab" is hashed
StoreRowA == StoreMovie(<<55>>, Some(1999), None)
StoreRowB == StoreMovie(<<97, 98>>, None, Some("d"))

\* ------------------------------------------------------ primary data client
\* What the transport (axios, 5000 ms timeout) does with one request.
TransportFailures == {"timeout", "network", "http500", "http404"}

\* how a call of the batch of four detail calls fails
DetailFailures == {"timeout", "http404"}
TransportOk(payload) == [ok |-> TRUE, data |-> payload]
TransportFail(why) == [ok |-> FALSE, message |-> why]

\* a list envelope; from is a history tag (which path produced the list)
Page(results, pageNum, totalPages, tag) ==
    [page |-> pageNum, results |-> results, total_pages |-> totalPages,
     from |-> tag]

\* the static lists of mockData (ALL_CONTENT, MOCK_MOVIES): non-empty
MockMovie == TmdbMovie(900)
MockPage == Page(<<MockMovie>>, 1, 1, "static")

\* tmdb.ts holds two definitions of every endpoint; a build links one of them:
\* "safe" wraps the request in apiSafeFetch, "direct" awaits it bare.
Variants == {"safe", "direct"}

apiSafeFetch(outcome, fallback) ==
    IF outcome.ok THEN Resolve(outcome.data) ELSE Resolve(fallback)

apiGet(outcome) ==
    IF outcome.ok THEN Resolve(outcome.data) ELSE Reject(outcome.message)

tmdbEndpoint(v, outcome, fallback) ==
    IF v = "safe" THEN apiSafeFetch(outcome, fallback) ELSE apiGet(outcome)

\* ---------------------------------------------------- secondary data client
\* What the store does with one query: the query function throws, or answers
\* {data, error}.
StoreThrow == [thrown |-> TRUE, data |-> None, error |-> None]
StoreError == [thrown |-> FALSE, data |-> None, error |-> Some("store error")]
StoreNull == [thrown |-> FALSE, data |-> None, error |-> None]
StoreData(d) == [thrown |-> FALSE, data |-> Some(d), error |-> None]

\* safeQuery: the promise's outcome, and whether queryFn was invoked
Answered(v, invoked) == [status |-> "fulfilled", value |-> v, invoked |-> invoked]

\* safeQuery without its try/catch: an exception of queryFn escapes
safeQueryRethrows(isConfigured, answer, fallback) ==
    IF ~isConfigured THEN Answered(fallback, FALSE)
    ELSE IF answer.thrown
    THEN [status |-> "rejected", value |-> fallback, invoked |-> TRUE]
    ELSE IF answer.error # None THEN Answered(fallback, TRUE)
    ELSE Answered(IF answer.data = None THEN fallback ELSE answer.data[1], TRUE)

\* safeQuery without the isSupabaseConfigured() guard
safeQueryUnguarded(isConfigured, answer, fallback) ==
    IF answer.thrown THEN Answered(fallback, TRUE)
    ELSE IF answer.error # None THEN Answered(fallback, TRUE)
    ELSE Answered(IF answer.data = None THEN fallback ELSE answer.data[1], TRUE)

safeQuery(isConfigured, answer, fallback) ==
    IF ~isConfigured THEN Answered(fallback, FALSE)
    ELSE IF answer.thrown THEN Answered(fallback, TRUE)
    ELSE IF answer.error # None THEN Answered(fallback, TRUE)
    ELSE Answered(IF answer.data = None THEN fallback ELSE answer.data[1], TRUE)

\* whether a safeQuery call reaches the store at all
queryFnInvoked(isConfigured) == safeQuery(isConfigured, StoreNull, <<>>).invoked

\* Promise.all over a function of outcomes: rejects when any rejects
AllFulfilled(ps) == \A k \in DOMAIN ps : ps[k].status = "fulfilled"

\* what a client operation gave its caller, and the queries it issued
ClientResult(status, value, issued) ==
    [status |-> status, value |-> value, issued |-> issued]

Count(p) == IF p.invoked THEN 1 ELSE 0

StoreAnswers == {"rows", "norows", "error", "null", "throw"}

StoreListAnswer(a, row) ==
    CASE a = "rows" -> StoreData(<<row>>)
      [] a = "norows" -> StoreData(<<>>)
      [] a = "error" -> StoreError
      [] a = "null" -> StoreNull
      [] OTHER -> StoreThrow

\* .single(): one row, or an error object when no row matches
RowAnswers == {"row", "error", "null", "throw"}

\* what each query of a batch of parallel queries answers
BatchAnswers == {"rows", "error", "throw"}

StoreRowAnswer(a, row) ==
    CASE a = "row" -> StoreData(Some(row))
      [] a = "error" -> StoreError
      [] a = "null" -> StoreNull
      [] OTHER -> StoreThrow

CategoryRow == [id |-> <<99>>, name |-> "c", slug |-> "c", display_order |-> 1]
JoinRow == [movie_id |-> <<55>>, category_id |-> <<99>>]

\* getMovies, getTrendingMovies, getPopularMovies, getNewReleases,
\* getTopRatedMovies, getSimilarMovies, getCategories: one safeQuery, fallback []
listQuery(isConfigured, answer) ==
    LET p == safeQuery(isConfigured, answer, <<>>)
    IN  ClientResult(p.status, p.value, Count(p))

getMovieById(isConfigured, answer) ==
    LET p == safeQuery(isConfigured, answer, None)
    IN  ClientResult(p.status, p.value, Count(p))

supabaseSearchMovies(isConfigured, query, answer) ==
    IF IsBlank(query) THEN ClientResult("fulfilled", <<>>, 0)
    ELSE listQuery(isConfigured, answer)

\* { ...category, movies }
WithMovies(category, movies) ==
    [id |-> category.id, name |-> category.name, slug |-> category.slug,
     display_order |-> category.display_order, movies |-> movies]

getCategoryWithMovies(isConfigured, a1, a2, a3) ==
    LET category == safeQuery(isConfigured, a1, None)
        movieIdsResult == safeQuery(isConfigured, a2, <<>>)
        movies == safeQuery(isConfigured, a3, <<>>)
    IN  IF category.status # "fulfilled"
        THEN ClientResult("rejected", None, Count(category))
        ELSE IF category.value = None
        THEN ClientResult("fulfilled", None, Count(category))
        ELSE IF movieIdsResult.status # "fulfilled"
        THEN ClientResult("rejected", None,
                          Count(category) + Count(movieIdsResult))
        ELSE IF Len(movieIdsResult.value) = 0
        THEN ClientResult("fulfilled",
                          Some(WithMovies(category.value[1], <<>>)),
                          Count(category) + Count(movieIdsResult))
        ELSE ClientResult(movies.status,
                          Some(WithMovies(category.value[1], movies.value)),
                          Count(category) + Count(movieIdsResult) + Count(movies))

getMovieCategories(isConfigured, a1, a2) ==
    LET movieCategories == safeQuery(isConfigured, a1, <<>>)
        categories == safeQuery(isConfigured, a2, <<>>)
    IN  IF movieCategories.status # "fulfilled"
        THEN ClientResult("rejected", <<>>, Count(movieCategories))
        ELSE IF Len(movieCategories.value) = 0
        THEN ClientResult("fulfilled", <<>>, Count(movieCategories))
        ELSE ClientResult(categories.status, categories.value,
                          Count(movieCategories) + Count(categories))

getMoviesByCategory(isConfigured, a1, a2, a3) ==
    LET category == safeQuery(isConfigured, a1, None)
        movieCategories == safeQuery(isConfigured, a2, <<>>)
        movies == safeQuery(isConfigured, a3, <<>>)
    IN  IF category.status # "fulfilled"
        THEN ClientResult("rejected", <<>>, Count(category))
        ELSE IF category.value = None
        THEN ClientResult("fulfilled", <<>>, Count(category))
        ELSE IF movieCategories.status # "fulfilled"
        THEN ClientResult("rejected", <<>>,
                          Count(category) + Count(movieCategories))
        ELSE IF Len(movieCategories.value) = 0
        THEN ClientResult("fulfilled", <<>>,
                          Count(category) + Count(movieCategories))
        ELSE ClientResult(movies.status, movies.value,
                          Count(category) + Count(movieCategories) + Count(movies))

HomeQueries == {"trending", "popular", "newReleases", "topRated"}

EmptyStoreHome ==
    [trending |-> <<>>, popular |-> <<>>, newReleases |-> <<>>,
     topRated |-> <<>>, heroMovie |-> None]

getHomeScreenData(isConfigured, answers) ==
    LET ps == [q \in HomeQueries |-> safeQuery(isConfigured, answers[q], <<>>)]
        issued == Count(ps["trending"]) + Count(ps["popular"])
                    + Count(ps["newReleases"]) + Count(ps["topRated"])
    IN  IF AllFulfilled(ps)
        THEN ClientResult("fulfilled",
                 [trending |-> ps["trending"].value,
                  popular |-> ps["popular"].value,
                  newReleases |-> ps["newReleases"].value,
                  topRated |-> ps["topRated"].value,
                  heroMovie |-> OrElse(First(ps["trending"].value),
                                       First(ps["popular"].value))],
                 issued)
        ELSE ClientResult("rejected", EmptyStoreHome, issued)

\* tmdb searchMovies: a blank query is answered without a request
EmptyPage == Page(<<>>, 1, 1, "none")

\* title.includes(query)
Includes(title, q) ==
    \E i \in 0..(Len(title) - Len(q)) : SubSeq(title, i + 1, i + Len(q)) = q

RECURSIVE Matching(_, _)
Matching(movies, q) ==
    IF movies = <<>> THEN <<>>
    ELSE IF Includes(Head(movies).title, q)
         THEN <<Head(movies)>> \o Matching(Tail(movies), q)
         ELSE Matching(Tail(movies), q)

\* ALL_CONTENT.filter(m => m.title.toLowerCase().includes(query.toLowerCase()))
MockSearchPage(q) == Page(Matching(<<MockMovie>>, q), 1, 1, "static")

tmdbSearchMovies(v, query, outcome) ==
    IF IsBlank(query) THEN ClientResult("fulfilled", EmptyPage, 0)
    ELSE LET p == tmdbEndpoint(v, outcome, MockSearchPage(query))
         IN  ClientResult(p.status,
                          IF p.status = "fulfilled" THEN p.value ELSE EmptyPage,
                          1)

\* ------------------------------------------------------------- useHomeData
HomeCalls == {"trending", "popular", "topRated", "upcoming"}

mapSupabaseHomeToTmdb(d) ==
    LET trending == mapSupabaseMoviesToTmdb(d.trending)
        popular == mapSupabaseMoviesToTmdb(d.popular)
        topRated == mapSupabaseMoviesToTmdb(d.topRated)
        upcoming == mapSupabaseMoviesToTmdb(d.newReleases)
    IN  [trending |-> trending, popular |-> popular, topRated |-> topRated,
         upcoming |-> upcoming,
         heroMovie |-> OrElse(First(trending),
                              OrElse(First(popular), First(upcoming)))]

\* -------------------------------------------------------------------- state
VARIABLES
    hook,           \* the hook instance this behaviour follows
    variant,        \* which definition of the tmdb endpoints the build links
    configured,     \* isSupabaseConfigured()
    phase,          \* "constructed", "mounted" or "unmounted"
    data,           \* the hook's data state
    loading,        \* the hook's loading state
    error,          \* the hook's error state (NULL or a message)
    inflight,       \* requests awaited by the hook's async functions
    fetches,        \* calls of the hook's functions so far
    tmdbRequests,   \* requests issued to the primary service
    storeRequests,  \* queries issued to the store
    origin,         \* history: the path each home list in data came from
    last,           \* history: the last step taken
    call,           \* the last direct call of a client operation
    page,           \* list and search hooks: the page state
    hasMore,        \* list and search hooks: the hasMore state
    movieId,        \* details screen: the route's id parameter
    suggestions,    \* search hooks: the suggestions state
    query,          \* search hooks: the query state
    timers,         \* search hooks: the timeouts that are pending
    debounceTimer,  \* search hooks: debounceTimer.current (0 is null)
    burst,          \* history: debounce cycles started, cancelled and fired,
                    \* and the last two search cycles that settled
    input           \* schema mapper: the row and category list it is given

env == <<hook, variant, configured, input>>

\* what the home hooks and the client calls never touch
paging == <<page, hasMore>>
searching == <<suggestions, query, timers, debounceTimer, burst>>
others == <<page, hasMore, movieId, searching>>

vars == <<hook, variant, configured, phase, data, loading, error, inflight,
          fetches, tmdbRequests, storeRequests, origin, last, call, page,
          hasMore, movieId, suggestions, query, timers, debounceTimer, burst,
          input>>

Hooks == {"home", "dbhome", "list", "dblist", "details", "search", "dbsearch",
          "client", "mapper"}

\* a liveness flag the cleanup never clears
isMountedAlways == TRUE

\* isMounted.current: useRef(true), cleared by the effect's cleanup
isMounted == phase # "unmounted"

\* a cycle without the finally block
finallyLoadingMissing == loading

\* finally { if (isMounted.current) setLoading(false); }
finallyLoading == IF isMounted THEN FALSE ELSE loading

\* a request-generation guard: only the request of the current text commits
mayCommitCurrentOnly(text) == isMounted /\ text = query

\* if (isMounted.current) before the search results are committed; the
\* text the request was made for is not consulted
mayCommit(text) == isMounted

\* a clearTimeout that leaves the timeout pending
clearTimeoutIgnored(pending, handle) == pending

\* a clearTimeout given a null handle instead of debounceTimer.current
clearTimeoutOfNull(pending, handle) == {t \in pending : t.id # 0}

\* clearTimeout(handle): the timeout, if still pending, never fires
clearTimeout(pending, handle) == {t \in pending : t.id # handle}

\* the debounce window of the latest search call has not elapsed yet
windowOpen == \E t \in timers : t.id = debounceTimer

EmptyHome ==
    [trending |-> <<>>, popular |-> <<>>, topRated |-> <<>>, upcoming |-> <<>>,
     heroMovie |-> None]

\* -------------------------------------------- MovieDetailsScreen's routing
DbPrefix == <<100, 98, 95>>

\* Boolean(movieId && movieId.startsWith('db_'))
isDbMovie(id) == Len(id) >= 3 /\ SubSeq(id, 1, 3) = DbPrefix

\* isDbMovie ? movieId.replace('db_', '') : null
dbMovieId(id) == IF isDbMovie(id) THEN Some(SubSeq(id, 4, Len(id))) ELSE None

\* Number.isFinite(movieIdNumber) ? movieIdNumber : null, where
\* movieIdNumber = !isDbMovie && movieId ? Number(movieId) : null
tmdbMovieId(id) ==
    IF ~isDbMovie(id) /\ id # <<>> /\ IsNumericString(id)
    THEN Some(DecimalValue(id)) ELSE None

\* movieId === null instead of !movieId: 0 counts as an id
NoTmdbIdNullOnly(opt) == opt = None

\* !movieId of useMovieDetails (null or 0) and of useSupabaseMovieDetails
\* (null or '')
NoTmdbId(opt) == opt = None \/ opt[1] = 0
NoDbId(opt) == opt = None \/ opt[1] = <<>>

\* the movies the two sources hold
TmdbExists(n) == n = 1
StoreExists(sid) == sid = <<55>>

\* useState's initial value of the details hook the screen renders from
InitDetails(id) ==
    IF isDbMovie(id) THEN [movie |-> None, similar |-> <<>>]
    ELSE [movie |-> None, videos |-> <<>>, credits |-> None, similar |-> <<>>,
          trailer |-> None]

\* useState's initial values
InitData(h, id) ==
    CASE h = "home" -> EmptyHome
      [] h = "dbhome" -> EmptyStoreHome
      [] h = "details" -> InitDetails(id)
      [] OTHER -> <<>>

\* the route ids of the details screen: "1", "2", "0", "x", "db_7", "db_ab",
\* "db_" and a missing parameter
RouteIds == {<<49>>, <<50>>, <<48>>, <<120>>, <<100, 98, 95, 55>>,
             <<100, 98, 95, 97, 98>>, <<100, 98, 95>>, <<>>}

InitLoading(h) == h \in {"home", "dbhome", "list", "dblist", "details"}

\* Rows of the movies table (supabase-schema.sql: release_year INTEGER and
\* rating DECIMAL(3,1) are nullable and unconstrained; description, the image
\* urls and duration are nullable) with the category list of the caller:
\* absent, empty, or two categories.  Ids: "7", "ab", "abcdefg" (its hash
\* leaves the 32-bit range and ends negative), "Aa" and "BB" (equal hashes).
MapperInputs ==
    [movie : [id : {<<55>>, <<97, 98>>, <<97, 98, 99, 100, 101, 102, 103>>,
                    <<65, 97>>, <<66, 66>>},
              title : {<<"s">>},
              description : {None, Some("d")},
              poster_url : {None, Some("u")},
              backdrop_url : {None, Some("v")},
              release_year : {None, Some(0), Some(1999)},
              rating : {None, Some(0), Some(8)},
              duration : {None, Some(120)}],
     categories : {None, Some(<<>>),
                   Some(<<[id |-> <<99>>, name |-> "c"],
                          [id |-> <<57>>, name |-> "n"]>>)}]

NoCall == [op |-> "none", single |-> FALSE, answer |-> StoreNull,
           fallback |-> <<>>, result |-> ClientResult("none", <<>>, 0)]

Step(op) == [op |-> op, failed |-> FALSE, text |-> <<>>]
Settled(op, failed) == [op |-> op, failed |-> failed, text |-> <<>>]
SettledFor(op, failed, text) == [op |-> op, failed |-> failed, text |-> text]

Init ==
    /\ hook \in Hooks
    /\ variant \in Variants
    /\ configured \in BOOLEAN
    /\ phase = "constructed"
    /\ movieId \in (IF hook = "details" THEN RouteIds ELSE {<<>>})
    /\ data = InitData(hook, movieId)
    /\ loading = InitLoading(hook)
    /\ error = NULL
    /\ inflight = {}
    /\ fetches = 0
    /\ tmdbRequests = 0
    /\ storeRequests = 0
    /\ origin = [k \in HomeCalls |-> "init"]
    /\ last = Step("init")
    /\ call = NoCall
    /\ page = 1
    /\ hasMore = (hook = "list")
    /\ suggestions = <<>>
    /\ query = <<>>
    /\ timers = {}
    /\ debounceTimer = 0
    /\ burst = [started |-> 0, cancelled |-> 0, fired |-> 0,
                prev |-> [text |-> <<>>, answer |-> "none", data |-> <<>>,
                          suggestions |-> <<>>, alone |-> FALSE],
                cur |-> [text |-> <<>>, answer |-> "none", data |-> <<>>,
                         suggestions |-> <<>>, alone |-> FALSE]]
    /\ input \in (IF hook = "mapper" THEN MapperInputs
                  ELSE {[movie |-> StoreRowA, categories |-> None]})

\* ------------------------------------------------------------- useHomeData
HomeOutcomes == {"empty", "full", "http500"}

HomeTransport(k, o) ==
    IF o \in TransportFailures THEN TransportFail(o)
    ELSE TransportOk(Page(IF o = "full" THEN <<TmdbMovie(1)>> ELSE <<>>,
                          1, 1, "primary"))

HomeRow(q) == IF q \in {"trending", "topRated"} THEN StoreRowA ELSE StoreRowB

\* fetchHomeData up to its first await: the four primary calls are issued
fetchHomeData ==
    /\ loading' = TRUE
    /\ error' = NULL
    /\ inflight' = inflight \cup {[id |-> fetches + 1, stage |-> "primary"]}
    /\ fetches' = fetches + 1
    /\ tmdbRequests' = tmdbRequests + 4
    /\ UNCHANGED <<data, origin, storeRequests>>

\* the catch branch after getSupabaseHomeScreenData settled with outcome p
HomeFallbackDone(p) ==
    /\ data' = IF isMounted /\ p.status = "fulfilled"
               THEN mapSupabaseHomeToTmdb(p.value) ELSE data
    /\ origin' = IF isMounted /\ p.status = "fulfilled"
                 THEN [k \in HomeCalls |-> "secondary"] ELSE origin
    /\ error' = IF isMounted /\ p.status = "rejected"
                THEN "Failed to load home data" ELSE error
    /\ loading' = finallyLoading

HomeMount ==
    /\ hook = "home"
    /\ phase = "constructed"
    /\ phase' = "mounted"
    /\ fetchHomeData
    /\ last' = Step("mount")
    /\ UNCHANGED <<env, call, others>>

HomeRefetch ==
    /\ hook = "home"
    /\ phase = "mounted"
    /\ fetches < MaxFetch
    /\ fetchHomeData
    /\ last' = Step("refetch")
    /\ UNCHANGED <<env, phase, call, others>>

\* await Promise.all([...]) of the primary batch resolves
HomePrimaryResolved ==
    /\ hook = "home"
    /\ \E r \in inflight, oc \in [HomeCalls -> HomeOutcomes] :
        LET ps == [k \in HomeCalls |->
                     tmdbEndpoint(variant, HomeTransport(k, oc[k]), MockPage)]
        IN  /\ r.stage = "primary"
            /\ AllFulfilled(ps)
            /\ inflight' = inflight \ {r}
            /\ data' = IF isMounted
                       THEN [trending |-> ps["trending"].value.results,
                             popular |-> ps["popular"].value.results,
                             topRated |-> ps["topRated"].value.results,
                             upcoming |-> ps["upcoming"].value.results,
                             heroMovie |-> First(ps["trending"].value.results)]
                       ELSE data
            /\ origin' = IF isMounted
                         THEN [k \in HomeCalls |-> ps[k].value.from]
                         ELSE origin
            /\ loading' = finallyLoading
            /\ last' = Settled("homePrimaryResolved", FALSE)
    /\ UNCHANGED <<env, phase, error, fetches, tmdbRequests, storeRequests,
                   call, others>>

\* await Promise.all([...]) rejects: the catch branch calls the store
\* aggregate, which answers at once when the store is not configured
HomePrimaryRejected ==
    /\ hook = "home"
    /\ \E r \in inflight, oc \in [HomeCalls -> HomeOutcomes] :
        LET ps == [k \in HomeCalls |->
                     tmdbEndpoint(variant, HomeTransport(k, oc[k]), MockPage)]
        IN  /\ r.stage = "primary"
            /\ ~AllFulfilled(ps)
            /\ IF queryFnInvoked(configured)
               THEN /\ inflight' = (inflight \ {r}) \cup
                           {[id |-> r.id, stage |-> "store",
                             allFailed |-> \A k \in HomeCalls :
                                              ps[k].status = "rejected"]}
                    /\ storeRequests' = storeRequests + 4
                    /\ last' = Step("homePrimaryRejected")
                    /\ UNCHANGED <<data, origin, error, loading>>
               ELSE /\ inflight' = inflight \ {r}
                    /\ HomeFallbackDone(getHomeScreenData(configured,
                                            [q \in HomeQueries |-> StoreNull]))
                    /\ last' = [op |-> "homeFallbackDone", failed |-> TRUE,
                                text |-> <<>>,
                                allFailed |-> \A k \in HomeCalls :
                                                 ps[k].status = "rejected"]
                    /\ UNCHANGED storeRequests
    /\ UNCHANGED <<env, phase, fetches, tmdbRequests, call, others>>

\* await getSupabaseHomeScreenData() settles
HomeStoreSettled ==
    /\ hook = "home"
    /\ \E r \in inflight, an \in [HomeQueries -> BatchAnswers] :
        /\ r.stage = "store"
        /\ inflight' = inflight \ {r}
        /\ HomeFallbackDone(getHomeScreenData(configured,
               [q \in HomeQueries |-> StoreListAnswer(an[q], HomeRow(q))]))
        /\ last' = [op |-> "homeFallbackDone",
                    failed |-> \A q \in HomeQueries :
                                  an[q] \in {"error", "throw"},
                    text |-> <<>>, allFailed |-> r.allFailed]
    /\ UNCHANGED <<env, phase, fetches, tmdbRequests, storeRequests, call,
                   others>>

\* ----------------------------------------------------- useSupabaseHomeData
\* the try block after getHomeScreenData settled with outcome p
DbHomeDone(p) ==
    /\ data' = IF isMounted /\ p.status = "fulfilled" THEN p.value ELSE data
    /\ error' = IF isMounted /\ p.status = "rejected"
                THEN "Failed to load home data" ELSE error
    /\ loading' = finallyLoading

\* fetchHomeData of useSupabaseHomeData; an unconfigured store answers at once
DbHomeFetch ==
    /\ fetches' = fetches + 1
    /\ IF queryFnInvoked(configured)
       THEN /\ loading' = TRUE
            /\ error' = NULL
            /\ inflight' = inflight \cup {[id |-> fetches + 1, stage |-> "store"]}
            /\ storeRequests' = storeRequests + 4
            /\ UNCHANGED data
       ELSE /\ data' = getHomeScreenData(configured,
                           [q \in HomeQueries |-> StoreNull]).value
            /\ error' = NULL
            /\ loading' = FALSE
            /\ UNCHANGED <<inflight, storeRequests>>
    /\ UNCHANGED <<tmdbRequests, origin>>

DbHomeMount ==
    /\ hook = "dbhome"
    /\ phase = "constructed"
    /\ phase' = "mounted"
    /\ DbHomeFetch
    /\ last' = Step("mount")
    /\ UNCHANGED <<env, call, others>>

DbHomeRefetch ==
    /\ hook = "dbhome"
    /\ phase = "mounted"
    /\ fetches < MaxFetch
    /\ DbHomeFetch
    /\ last' = Step("refetch")
    /\ UNCHANGED <<env, phase, call, others>>

DbHomeSettled ==
    /\ hook = "dbhome"
    /\ \E r \in inflight, an \in [HomeQueries -> BatchAnswers] :
        /\ inflight' = inflight \ {r}
        /\ DbHomeDone(getHomeScreenData(configured,
               [q \in HomeQueries |-> StoreListAnswer(an[q], HomeRow(q))]))
        /\ last' = Settled("dbHomeDone",
                           \A q \in HomeQueries : an[q] \in {"error", "throw"})
    /\ UNCHANGED <<env, phase, fetches, tmdbRequests, storeRequests, origin,
                   call, others>>

\* ------------------------------------------------------------ useMovieList
\* pages the list endpoint of the primary service holds
ListTotalPages == 2

ListOutcomes == {"ok"} \cup TransportFailures

ListTransport(pageNum, o) ==
    IF o = "ok"
    THEN TransportOk(Page(<<TmdbMovie(pageNum)>>, pageNum, ListTotalPages,
                          "primary"))
    ELSE TransportFail(o)

\* fetchData(pageNum, append) up to its await
fetchData(pageNum, append) ==
    /\ loading' = TRUE
    /\ error' = NULL
    /\ inflight' = inflight \cup
           {[id |-> fetches + 1, stage |-> "list", pageNum |-> pageNum,
             append |-> append]}
    /\ tmdbRequests' = tmdbRequests + 1

ListMount ==
    /\ hook = "list"
    /\ phase = "constructed"
    /\ phase' = "mounted"
    /\ fetchData(1, FALSE)
    /\ fetches' = fetches + 1
    /\ last' = Step("mount")
    /\ UNCHANGED <<env, data, paging, storeRequests, origin, call, movieId,
                   searching>>

ListRefetch ==
    /\ hook = "list"
    /\ phase = "mounted"
    /\ fetches < MaxFetch
    /\ data' = <<>>
    /\ fetchData(1, FALSE)
    /\ fetches' = fetches + 1
    /\ last' = Step("refetch")
    /\ UNCHANGED <<env, phase, paging, storeRequests, origin, call, movieId,
                   searching>>

\* loadMore does nothing while loading or when hasMore is false.  loading,
\* hasMore and page are the values of the render the callback was created
\* in: a second call before the hook re-renders (calls = 2) reads the same
\* values and issues the same request again.
ListLoadMore ==
    /\ hook = "list"
    /\ phase = "mounted"
    /\ fetches < MaxFetch
    /\ \E calls \in 1..2 :
        /\ fetches' = fetches + calls
        /\ IF ~loading /\ hasMore
           THEN /\ IF calls = 1 THEN fetchData(page + 1, TRUE)
                   ELSE /\ loading' = TRUE
                        /\ error' = NULL
                        /\ inflight' = inflight \cup
                               {[id |-> fetches + c, stage |-> "list",
                                 pageNum |-> page + 1, append |-> TRUE] :
                                c \in 1..calls}
                        /\ tmdbRequests' = tmdbRequests + calls
                /\ last' = Step("loadMore")
           ELSE /\ last' = Step("loadMoreSkipped")
                /\ UNCHANGED <<loading, error, inflight, tmdbRequests>>
    /\ UNCHANGED <<env, phase, data, paging, storeRequests, origin, call,
                   movieId, searching>>

\* await fetchFunction(pageNum) settles
ListSettled ==
    /\ hook = "list"
    /\ \E r \in inflight, o \in ListOutcomes :
        LET p == tmdbEndpoint(variant, ListTransport(r.pageNum, o), MockPage)
            ok == p.status = "fulfilled"
        IN  /\ inflight' = inflight \ {r}
            /\ data' = IF isMounted /\ ok
                       THEN (IF r.append THEN data \o p.value.results
                             ELSE p.value.results)
                       ELSE data
            /\ hasMore' = IF isMounted /\ ok
                          THEN r.pageNum < p.value.total_pages ELSE hasMore
            /\ page' = IF isMounted /\ ok THEN r.pageNum ELSE page
            /\ error' = IF isMounted /\ ~ok THEN p.reason ELSE error
            /\ loading' = finallyLoading
            /\ last' = Settled("listSettled", ~ok)
    /\ UNCHANGED <<env, phase, fetches, tmdbRequests, storeRequests, origin,
                   call, movieId, searching>>

\* ---------------------------------------------------- useSupabaseMovieList
\* the try block after fetchFunction() settled with outcome p
DbListDone(p) ==
    /\ data' = IF isMounted /\ p.status = "fulfilled" THEN p.value ELSE data
    /\ error' = IF isMounted /\ p.status = "rejected"
                THEN "An error occurred" ELSE error
    /\ loading' = finallyLoading

\* fetchData of useSupabaseMovieList; an unconfigured store answers at once
DbListFetch ==
    /\ fetches' = fetches + 1
    /\ IF queryFnInvoked(configured)
       THEN /\ loading' = TRUE
            /\ error' = NULL
            /\ inflight' = inflight \cup {[id |-> fetches + 1, stage |-> "store"]}
            /\ storeRequests' = storeRequests + 1
            /\ UNCHANGED data
       ELSE /\ data' = listQuery(configured, StoreNull).value
            /\ error' = NULL
            /\ loading' = FALSE
            /\ UNCHANGED <<inflight, storeRequests>>
    /\ UNCHANGED <<tmdbRequests, origin>>

DbListMount ==
    /\ hook = "dblist"
    /\ phase = "constructed"
    /\ phase' = "mounted"
    /\ DbListFetch
    /\ last' = Step("mount")
    /\ UNCHANGED <<env, call, others>>

DbListRefetch ==
    /\ hook = "dblist"
    /\ phase = "mounted"
    /\ fetches < MaxFetch
    /\ DbListFetch
    /\ last' = Step("refetch")
    /\ UNCHANGED <<env, phase, call, others>>

DbListSettled ==
    /\ hook = "dblist"
    /\ \E r \in inflight, a \in StoreAnswers :
        /\ inflight' = inflight \ {r}
        /\ DbListDone(listQuery(configured, StoreListAnswer(a, StoreRowA)))
        /\ last' = Settled("dbListDone", a \in {"error", "throw"})
    /\ UNCHANGED <<env, phase, fetches, tmdbRequests, storeRequests, origin,
                   call, others>>

\* --------------------------------------------------------- useMovieDetails
DetailCalls == {"details", "videos", "credits", "similar"}

Teaser == [type |-> "Teaser", site |-> "YouTube", key |-> "k1"]
VimeoTrailer == [type |-> "Trailer", site |-> "Vimeo", key |-> "k2"]
YouTubeTrailer == [type |-> "Trailer", site |-> "YouTube", key |-> "k3"]

VideoLists == {<<>>, <<Teaser>>, <<Teaser, VimeoTrailer>>,
               <<Teaser, VimeoTrailer, YouTubeTrailer>>}

\* results.find(pred) || null
RECURSIVE FindVideo(_, _, _)
FindVideo(results, type, sites) ==
    IF results = <<>> THEN None
    ELSE IF Head(results).type = type /\ Head(results).site \in sites
    THEN Some(Head(results))
    ELSE FindVideo(Tail(results), type, sites)

PickTrailer(results) ==
    OrElse(FindVideo(results, "Trailer", {"YouTube"}),
           OrElse(FindVideo(results, "Trailer", {"YouTube", "Vimeo"}),
                  First(results)))

\* what each of the four endpoints answers for an id the service holds
DetailPayload(k, n, vids) ==
    CASE k = "details" -> [movie |-> TmdbMovie(n), from |-> "primary"]
      [] k = "videos" -> [results |-> vids, from |-> "primary"]
      [] k = "credits" -> [cast |-> <<>>, crew |-> <<>>, from |-> "primary"]
      [] OTHER -> Page(<<TmdbMovie(n + 1)>>, 1, 1, "primary")

\* getMockMovieDetails(id), MOCK_VIDEOS, MOCK_CREDITS, ALL_CONTENT of mockData
DetailMock(k, n) ==
    CASE k = "details" -> [movie |-> MockMovie, from |-> "static"]
      [] k = "videos" -> [results |-> <<YouTubeTrailer>>, from |-> "static"]
      [] k = "credits" -> [cast |-> <<>>, crew |-> <<>>, from |-> "static"]
      [] OTHER -> MockPage

\* a catch handler that clears the hook's lists instead of keeping them
prevStateCleared(prev) ==
    [movie |-> None, videos |-> <<>>, credits |-> None, similar |-> <<>>,
     trailer |-> None]

\* setState(prev => ({ ...prev, loading: false, error })): what the catch
\* handlers of both details hooks leave of the data fields
prevState(prev) == prev

\* fetchDetails of useMovieDetails up to its await
fetchDetails(id) ==
    IF NoTmdbId(id)
    THEN /\ loading' = FALSE
         /\ UNCHANGED <<error, inflight, tmdbRequests>>
    ELSE /\ loading' = TRUE
         /\ error' = NULL
         /\ inflight' = inflight \cup
                {[id |-> fetches + 1, stage |-> "details", movieId |-> id[1]]}
         /\ tmdbRequests' = tmdbRequests + 4

\* await Promise.all([...]) of the four detail calls settles; a call the
\* transport fails fails with why, and every call fails for an absent movie
TmdbDetailsSettled ==
    /\ hook = "details"
    /\ \E r \in inflight, failing \in SUBSET DetailCalls,
          why \in DetailFailures, vids \in VideoLists :
        LET ps == [k \in DetailCalls |->
                     tmdbEndpoint(variant,
                         IF k \in failing THEN TransportFail(why)
                         ELSE TransportOk(DetailPayload(k, r.movieId, vids)),
                         DetailMock(k, r.movieId))]
            ok == AllFulfilled(ps)
        IN  /\ r.stage = "details"
            /\ TmdbExists(r.movieId) \/ (failing = DetailCalls /\ why = "http404")
            /\ inflight' = inflight \ {r}
            /\ data' = IF ~isMounted THEN data
                       ELSE IF ok
                       THEN [movie |-> Some(ps["details"].value.movie),
                             videos |-> ps["videos"].value.results,
                             credits |-> Some(ps["credits"].value),
                             similar |-> ps["similar"].value.results,
                             trailer |-> PickTrailer(ps["videos"].value.results)]
                       ELSE prevState(data)
            /\ error' = IF ~isMounted THEN error
                        ELSE IF ok THEN NULL ELSE "Failed to load details"
            /\ loading' = IF isMounted THEN FALSE ELSE loading
            /\ last' = Settled("detailsSettled", ~ok)
    /\ UNCHANGED <<env, phase, fetches, tmdbRequests, storeRequests, origin,
                   call, others>>

\* ------------------------------------------------- useSupabaseMovieDetails
\* { ...movieData, categories: categoryData }
WithCategories(movie, categories) ==
    [id |-> movie.id, title |-> movie.title,
     description |-> movie.description, poster_url |-> movie.poster_url,
     backdrop_url |-> movie.backdrop_url, release_year |-> movie.release_year,
     rating |-> movie.rating, duration |-> movie.duration,
     categories |-> categories]

\* the try block after Promise.all([getMovieById, getMovieCategories,
\* getSimilarMovies]) settled
DbDetailsDone(movieData, categoryData, similarData) ==
    LET ok == /\ movieData.status = "fulfilled"
              /\ categoryData.status = "fulfilled"
              /\ similarData.status = "fulfilled"
        found == ok /\ movieData.value # None
    IN  /\ data' = IF ~isMounted THEN data
                   ELSE IF ~ok THEN prevState(data)
                   ELSE IF found
                   THEN [movie |-> Some(WithCategories(movieData.value[1],
                                                       categoryData.value)),
                         similar |-> similarData.value]
                   ELSE [movie |-> None, similar |-> <<>>]
        /\ error' = IF ~isMounted THEN error
                    ELSE IF ~ok THEN "Failed to load movie details"
                    ELSE IF found THEN NULL ELSE "Movie not found"
        /\ loading' = IF isMounted THEN FALSE ELSE loading
        /\ storeRequests' = storeRequests
               + (IF categoryData.issued > 1 THEN 1 ELSE 0)

\* fetchDetails of useSupabaseMovieDetails; an unconfigured store answers at
\* once
dbFetchDetails(id) ==
    IF NoDbId(id)
    THEN /\ loading' = FALSE
         /\ UNCHANGED <<data, error, inflight, storeRequests>>
    ELSE IF queryFnInvoked(configured)
    THEN /\ loading' = TRUE
         /\ error' = NULL
         /\ inflight' = inflight \cup
                {[id |-> fetches + 1, stage |-> "dbdetails", movieId |-> id[1]]}
         /\ storeRequests' = storeRequests + 3
         /\ UNCHANGED data
    ELSE /\ DbDetailsDone(getMovieById(configured, StoreNull),
                          getMovieCategories(configured, StoreNull, StoreNull),
                          listQuery(configured, StoreNull))
         /\ UNCHANGED inflight

DbDetailsSettled ==
    /\ hook = "details"
    /\ \E r \in inflight, a1 \in RowAnswers, a2 \in BatchAnswers,
          a3 \in BatchAnswers, a4 \in BatchAnswers :
        /\ r.stage = "dbdetails"
        /\ StoreExists(r.movieId) \/ a1 # "row"
        /\ inflight' = inflight \ {r}
        /\ DbDetailsDone(
               getMovieById(configured, StoreRowAnswer(a1, StoreRowA)),
               getMovieCategories(configured, StoreListAnswer(a2, JoinRow),
                                  StoreListAnswer(a3, CategoryRow)),
               listQuery(configured, StoreListAnswer(a4, StoreRowB)))
        /\ last' = Settled("dbDetailsSettled", a1 \in {"error", "throw"})
    /\ UNCHANGED <<env, phase, fetches, tmdbRequests, origin, call, others>>

\* ------------------------------------------------------ MovieDetailsScreen
\* the screen runs both details hooks; the one its route id does not select
\* gets a null id and only clears its loading flag
ScreenFetch ==
    /\ fetches' = fetches + 1
    /\ IF isDbMovie(movieId)
       THEN /\ dbFetchDetails(dbMovieId(movieId))
            /\ UNCHANGED tmdbRequests
       ELSE /\ fetchDetails(tmdbMovieId(movieId))
            /\ UNCHANGED <<data, storeRequests>>

DetailsMount ==
    /\ hook = "details"
    /\ phase = "constructed"
    /\ phase' = "mounted"
    /\ ScreenFetch
    /\ last' = Step("mount")
    /\ UNCHANGED <<env, origin, call, others>>

DetailsRefetch ==
    /\ hook = "details"
    /\ phase = "mounted"
    /\ fetches < MaxFetch
    /\ ScreenFetch
    /\ last' = Step("refetch")
    /\ UNCHANGED <<env, phase, origin, call, others>>

\* The id parameter changes to another id of the same source: fetchDetails
\* is a new callback, so the effect's cleanup clears isMounted.current and
\* the effect sets it again and calls fetchDetails for the new id.  The
\* hook's state is kept, and the request in flight for the old id is not
\* cancelled: when it settles isMounted.current is true again.
DetailsParamChange ==
    /\ hook = "details"
    /\ phase = "mounted"
    /\ fetches < MaxFetch
    /\ \E id \in RouteIds \ {movieId} :
        /\ isDbMovie(id) = isDbMovie(movieId)
        /\ movieId' = id
        /\ fetches' = fetches + 1
        /\ IF isDbMovie(id)
           THEN /\ dbFetchDetails(dbMovieId(id))
                /\ UNCHANGED tmdbRequests
           ELSE /\ fetchDetails(tmdbMovieId(id))
                /\ UNCHANGED <<data, storeRequests>>
    /\ last' = Step("paramChange")
    /\ UNCHANGED <<env, phase, origin, call, paging, searching>>

\* ---------------------------------------------------------- search backend
\* calls of search, refetch and loadMore one search hook instance gets
MaxSearch == 3

\* results per page of the text "a"
HitsPerPage == 6

\* the texts typed into the search field: "", " ", "a", "ab"
SearchTexts == {<<>>, <<" ">>, <<"a">>, <<"a", "b">>}

\* an entry of /search/multi
SearchItem(n, title, name, media_type) ==
    [id |-> n, title |-> title, name |-> name, media_type |-> media_type,
     source |-> "undefined", sourceId |-> <<>>]

SearchTotalPages(text) == IF text = <<"a">> THEN 2 ELSE 1

\* the service's answer: a person, then the matching movies and shows;
\* a page past the last one is empty
RawResults(text, pageNum) ==
    LET n == IF text = <<"a">> THEN HitsPerPage ELSE 1
    IN  IF pageNum > SearchTotalPages(text) THEN <<>>
        ELSE
        <<SearchItem(pageNum * 100, <<>>, <<"n">>, "person")>> \o
        [i \in 1..n |->
            IF i = 1
            THEN SearchItem(pageNum * 100 + i, <<>>, text, "tv")
            ELSE SearchItem(pageNum * 100 + i, text, <<>>, "movie")]

\* .map(m => ({ ...m, title: m.title || m.name }))
\*  .filter(m => m.media_type !== 'person')
RECURSIVE CleanResults(_)
CleanResults(results) ==
    IF results = <<>> THEN <<>>
    ELSE LET m == Head(results)
             titled == [m EXCEPT !.title = IF m.title # <<>> THEN m.title
                                           ELSE m.name]
         IN  IF m.media_type # "person"
             THEN <<titled>> \o CleanResults(Tail(results))
             ELSE CleanResults(Tail(results))

SearchOutcomes == {"ok"} \cup TransportFailures

\* res.data after searchMovies replaced its results, per text and page
SearchPages ==
    [text \in SearchTexts, pageNum \in 1..MaxSearch |->
        Page(CleanResults(RawResults(text, pageNum)), pageNum,
             SearchTotalPages(text), "primary")]

SearchTransport(text, pageNum, o) ==
    IF o = "ok" THEN TransportOk(SearchPages[text, pageNum])
    ELSE TransportFail(o)

\* the rows whose title matches ilike '%query%'
StoreHits(text) ==
    CASE text = <<"a">> -> <<StoreRowA, StoreRowB>>
      [] text = <<"a", "b">> -> <<StoreRowB>>
      [] OTHER -> <<>>

StoreSearchAnswer(a, text) ==
    CASE a \in {"rows", "norows"} -> StoreData(StoreHits(text))
      [] a = "error" -> StoreError
      [] a = "null" -> StoreNull
      [] OTHER -> StoreThrow

\* results.slice(0, 5)
SuggestionCount == 5
Slice(results, n) == SubSeq(results, 1, IF Len(results) < n THEN Len(results) ELSE n)

\* --------------------------------- useSearchMovies, useSupabaseSearchMovies
SearchHooks == {"search", "dbsearch"}

SearchMount ==
    /\ hook \in SearchHooks
    /\ phase = "constructed"
    /\ phase' = "mounted"
    /\ last' = Step("mount")
    /\ UNCHANGED <<env, data, loading, error, inflight, fetches, tmdbRequests,
                   storeRequests, origin, call, page, hasMore, movieId,
                   searching>>

\* search(searchQuery), the same in both hooks
search(searchQuery) ==
    LET cleared == clearTimeout(timers, debounceTimer)
    IN  /\ query' = searchQuery
        /\ fetches' = fetches + 1
        /\ IF IsBlank(searchQuery)
           THEN /\ data' = <<>>
                /\ suggestions' = <<>>
                /\ timers' = cleared
                /\ burst' = [burst EXCEPT
                               !.cancelled = @ + (IF windowOpen THEN 1 ELSE 0)]
                /\ last' = SettledFor("searchBlank", FALSE, searchQuery)
                /\ UNCHANGED debounceTimer
           ELSE /\ timers' = cleared \cup
                               {[id |-> fetches + 1, text |-> searchQuery]}
                /\ debounceTimer' = fetches + 1
                /\ burst' = [burst EXCEPT
                               !.started = @ + (IF windowOpen THEN 0 ELSE 1)]
                /\ last' = SettledFor("search", FALSE, searchQuery)
                /\ UNCHANGED <<data, suggestions>>
        /\ UNCHANGED <<env, phase, loading, error, inflight, tmdbRequests,
                       storeRequests, origin, call, page, hasMore, movieId>>

SearchCall ==
    /\ hook \in SearchHooks
    /\ phase = "mounted"
    /\ fetches < MaxSearch
    /\ \E searchQuery \in SearchTexts : search(searchQuery)

\* refetch: search(query) unless query is blank
SearchRefetch ==
    /\ hook \in SearchHooks
    /\ phase = "mounted"
    /\ fetches < MaxSearch
    /\ ~IsBlank(query)
    /\ search(query)

\* the timeout's callback of useSearchMovies up to its await
SearchTimerFired ==
    /\ hook = "search"
    /\ \E t \in timers :
        /\ timers' = timers \ {t}
        /\ loading' = TRUE
        /\ inflight' = inflight \cup
               {[id |-> t.id, stage |-> "search", text |-> t.text,
                 pageNum |-> 1]}
        /\ tmdbRequests' =
               tmdbRequests + tmdbSearchMovies(variant, t.text,
                                  SearchTransport(t.text, 1, "ok")).issued
        /\ burst' = [burst EXCEPT !.fired = @ + 1]
        /\ last' = SettledFor("timerFired", FALSE, t.text)
    /\ UNCHANGED <<env, phase, data, error, fetches, storeRequests, origin,
                   call, page, hasMore, movieId, suggestions, query,
                   debounceTimer>>

\* await searchMovies(searchQuery, 1) settles
SearchSettled ==
    /\ hook = "search"
    /\ \E r \in inflight, o \in SearchOutcomes :
        LET p == tmdbSearchMovies(variant, r.text,
                                  SearchTransport(r.text, 1, o))
            ok == p.status = "fulfilled"
        IN  /\ r.stage = "search"
            /\ inflight' = inflight \ {r}
            /\ data' = IF mayCommit(r.text) /\ ok THEN p.value.results
                       ELSE data
            /\ suggestions' = IF mayCommit(r.text) /\ ok
                              THEN Slice(p.value.results, SuggestionCount)
                              ELSE suggestions
            /\ page' = IF mayCommit(r.text) /\ ok THEN 1 ELSE page
            /\ hasMore' = IF mayCommit(r.text) /\ ok
                          THEN 1 < p.value.total_pages ELSE hasMore
            /\ error' = IF isMounted /\ ~ok THEN "Search failed" ELSE error
            /\ loading' = finallyLoading
            /\ last' = SettledFor("searchSettled", ~ok, r.text)
            /\ burst' = [burst EXCEPT
                   !.prev = burst.cur,
                   !.cur = [text |-> r.text, answer |-> o, data |-> data',
                            suggestions |-> suggestions',
                            alone |-> inflight = {r} /\ timers = {}]]
    /\ UNCHANGED <<env, phase, fetches, tmdbRequests, storeRequests, origin,
                   call, movieId, query, timers, debounceTimer>>

\* loadMore of useSearchMovies up to its await
SearchLoadMore ==
    /\ hook = "search"
    /\ phase = "mounted"
    /\ fetches < MaxSearch
    /\ fetches' = fetches + 1
    /\ IF ~loading /\ hasMore /\ ~IsBlank(query)
       THEN /\ loading' = TRUE
            /\ inflight' = inflight \cup
                   {[id |-> fetches + 1, stage |-> "more", text |-> query,
                     pageNum |-> page + 1]}
            /\ tmdbRequests' = tmdbRequests + 1
            /\ last' = SettledFor("loadMore", FALSE, query)
       ELSE /\ last' = Step("loadMoreSkipped")
            /\ UNCHANGED <<loading, inflight, tmdbRequests>>
    /\ UNCHANGED <<env, phase, data, error, storeRequests, origin, call, page,
                   hasMore, movieId, searching>>

\* await searchMovies(query, page + 1) settles
SearchMoreSettled ==
    /\ hook = "search"
    /\ \E r \in inflight, o \in SearchOutcomes :
        LET p == tmdbSearchMovies(variant, r.text,
                                  SearchTransport(r.text, r.pageNum, o))
            ok == p.status = "fulfilled"
        IN  /\ r.stage = "more"
            /\ inflight' = inflight \ {r}
            /\ data' = IF isMounted /\ ok THEN data \o p.value.results
                       ELSE data
            /\ page' = IF isMounted /\ ok THEN page + 1 ELSE page
            /\ hasMore' = IF isMounted /\ ok
                          THEN r.pageNum < p.value.total_pages ELSE hasMore
            /\ error' = IF isMounted /\ ~ok THEN "Failed to load more"
                        ELSE error
            /\ loading' = finallyLoading
            /\ last' = SettledFor("moreSettled", ~ok, r.text)
    /\ UNCHANGED <<env, phase, fetches, tmdbRequests, storeRequests, origin,
                   call, movieId, searching>>

\* a callback that appends the results to data instead of replacing it
DbSearchDoneAppending(p, text) ==
    /\ data' = IF mayCommit(text) /\ p.status = "fulfilled"
               THEN data \o p.value ELSE data
    /\ suggestions' = IF mayCommit(text) /\ p.status = "fulfilled"
                      THEN Slice(p.value, SuggestionCount) ELSE suggestions
    /\ error' = IF isMounted /\ p.status = "rejected" THEN "Search failed"
                ELSE error

\* the try block of the store hook's callback after searchMovies settled
DbSearchDone(p, text) ==
    /\ data' = IF mayCommit(text) /\ p.status = "fulfilled" THEN p.value
               ELSE data
    /\ suggestions' = IF mayCommit(text) /\ p.status = "fulfilled"
                      THEN Slice(p.value, SuggestionCount) ELSE suggestions
    /\ error' = IF isMounted /\ p.status = "rejected" THEN "Search failed"
                ELSE error

\* the timeout's callback of useSupabaseSearchMovies; an unconfigured store
\* answers at once
DbSearchTimerFired ==
    /\ hook = "dbsearch"
    /\ \E t \in timers :
        /\ timers' = timers \ {t}
        /\ last' = SettledFor("timerFired", FALSE, t.text)
        /\ IF queryFnInvoked(configured)
           THEN /\ loading' = TRUE
                /\ inflight' = inflight \cup
                       {[id |-> t.id, stage |-> "dbsearch", text |-> t.text,
                         pageNum |-> 1]}
                /\ storeRequests' = storeRequests + 1
                /\ burst' = [burst EXCEPT !.fired = @ + 1]
                /\ UNCHANGED <<data, suggestions, error>>
           ELSE /\ DbSearchDone(supabaseSearchMovies(configured, t.text,
                                                     StoreNull), t.text)
                /\ loading' = ~isMounted
                /\ burst' = [burst EXCEPT
                       !.fired = @ + 1,
                       !.prev = burst.cur,
                       !.cur = [text |-> t.text, answer |-> "unconfigured",
                                data |-> data', suggestions |-> suggestions',
                                alone |-> inflight = {} /\ timers = {t}]]
                /\ UNCHANGED <<inflight, storeRequests>>
    /\ UNCHANGED <<env, phase, fetches, tmdbRequests, origin, call, page,
                   hasMore, movieId, query, debounceTimer>>

\* await searchMovies(searchQuery) of the store settles
DbSearchSettled ==
    /\ hook = "dbsearch"
    /\ \E r \in inflight, a \in StoreAnswers \ {"norows"} :
        LET p == supabaseSearchMovies(configured, r.text,
                                      StoreSearchAnswer(a, r.text))
        IN  /\ inflight' = inflight \ {r}
            /\ DbSearchDone(p, r.text)
            /\ loading' = finallyLoading
            /\ last' = SettledFor("searchSettled", p.status = "rejected",
                                  r.text)
            /\ burst' = [burst EXCEPT
                   !.prev = burst.cur,
                   !.cur = [text |-> r.text, answer |-> a, data |-> data',
                            suggestions |-> suggestions',
                            alone |-> inflight = {r} /\ timers = {}]]
    /\ UNCHANGED <<env, phase, fetches, tmdbRequests, storeRequests, origin,
                   call, page, hasMore, movieId, query, timers, debounceTimer>>

\* --------------------------------------------- direct calls of the clients
ListOps == {"getMovies", "getTrendingMovies", "getPopularMovies",
            "getNewReleases", "getTopRatedMovies", "getSimilarMovies",
            "getCategories"}

\* one client call: its result is recorded, its queries are counted
CalledWith(op, text, single, answer, fallback, result) ==
    /\ hook = "client"
    /\ fetches < MaxFetch
    /\ fetches' = fetches + 1
    /\ call' = [op |-> op, single |-> single, answer |-> answer,
                fallback |-> fallback, result |-> result]
    /\ last' = SettledFor("call", FALSE, text)
    /\ UNCHANGED <<env, phase, data, loading, error, inflight, origin, others>>

Called(op, single, answer, fallback, result) ==
    CalledWith(op, <<>>, single, answer, fallback, result)

ClientListQuery ==
    \E op \in ListOps, a \in StoreAnswers :
        LET answer == StoreListAnswer(a, StoreRowA)
            result == listQuery(configured, answer)
        IN  /\ Called(op, TRUE, answer, <<>>, result)
            /\ storeRequests' = storeRequests + result.issued
            /\ UNCHANGED tmdbRequests

ClientGetMovieById ==
    \E a \in RowAnswers :
        LET answer == StoreRowAnswer(a, StoreRowA)
            result == getMovieById(configured, answer)
        IN  /\ Called("getMovieById", TRUE, answer, None, result)
            /\ storeRequests' = storeRequests + result.issued
            /\ UNCHANGED tmdbRequests

ClientSearchMovies ==
    \E q \in Texts, a \in StoreAnswers :
        LET answer == StoreListAnswer(a, StoreRowA)
            result == supabaseSearchMovies(configured, q, answer)
        IN  /\ CalledWith("searchMovies", q, TRUE, answer, <<>>, result)
            /\ storeRequests' = storeRequests + result.issued
            /\ UNCHANGED tmdbRequests

ClientGetCategoryWithMovies ==
    \E a1 \in RowAnswers, a2 \in StoreAnswers, a3 \in StoreAnswers :
        LET result == getCategoryWithMovies(configured,
                          StoreRowAnswer(a1, CategoryRow),
                          StoreListAnswer(a2, JoinRow),
                          StoreListAnswer(a3, StoreRowA))
        IN  /\ Called("getCategoryWithMovies", FALSE, StoreNull, None, result)
            /\ storeRequests' = storeRequests + result.issued
            /\ UNCHANGED tmdbRequests

ClientGetMovieCategories ==
    \E a1 \in StoreAnswers, a2 \in StoreAnswers :
        LET result == getMovieCategories(configured,
                          StoreListAnswer(a1, JoinRow),
                          StoreListAnswer(a2, CategoryRow))
        IN  /\ Called("getMovieCategories", FALSE, StoreNull, <<>>, result)
            /\ storeRequests' = storeRequests + result.issued
            /\ UNCHANGED tmdbRequests

ClientGetMoviesByCategory ==
    \E a1 \in RowAnswers, a2 \in StoreAnswers, a3 \in StoreAnswers :
        LET result == getMoviesByCategory(configured,
                          StoreRowAnswer(a1, CategoryRow),
                          StoreListAnswer(a2, JoinRow),
                          StoreListAnswer(a3, StoreRowA))
        IN  /\ Called("getMoviesByCategory", FALSE, StoreNull, <<>>, result)
            /\ storeRequests' = storeRequests + result.issued
            /\ UNCHANGED tmdbRequests

ClientGetHomeScreenData ==
    \E an \in [HomeQueries -> StoreAnswers] :
        LET result == getHomeScreenData(configured,
                          [q \in HomeQueries |->
                              StoreListAnswer(an[q], HomeRow(q))])
        IN  /\ Called("getHomeScreenData", FALSE, an, EmptyStoreHome,
                      result)
            /\ storeRequests' = storeRequests + result.issued
            /\ UNCHANGED tmdbRequests

\* searchMovies of the primary client
ClientTmdbSearchMovies ==
    \E q \in Texts, o \in {"ok"} \cup TransportFailures :
        LET outcome == IF o = "ok"
                       THEN TransportOk(Page(<<TmdbMovie(1)>>, 1, 1, "primary"))
                       ELSE TransportFail(o)
            result == tmdbSearchMovies(variant, q, outcome)
        IN  /\ CalledWith("tmdbSearch", q, FALSE, outcome, EmptyPage,
                          result)
            /\ tmdbRequests' = tmdbRequests + result.issued
            /\ UNCHANGED storeRequests

\* ------------------------------------------------------------------ unmount
\* the effect's cleanup; the search hooks also clear their timeout
\* a movie card that keeps the numeric id as the route id of every movie
getMovieRouteIdNumeric(movie) == FormatNumber(movie.id)

\* movie.source === 'supabase' && movie.sourceId ? `db_${movie.sourceId}`
\*                                                : String(movie.id)
getMovieRouteId(movie) ==
    IF movie.source = "supabase" /\ movie.sourceId # <<>>
    THEN DbPrefix \o movie.sourceId
    ELSE FormatNumber(movie.id)

\* the schema mapper applied to a row and a category list, and the route ids
\* a movie card builds for the mapped movie and for a movie of the primary
\* service
MapperApply ==
    /\ hook = "mapper"
    /\ fetches < MaxFetch
    /\ fetches' = fetches + 1
    /\ \E n \in {1, 27} :
        call' = [op |-> "mapSupabaseMovieToTmdbDetails", single |-> FALSE,
                 answer |-> StoreNull, fallback |-> <<>>,
                 result |-> ClientResult("fulfilled",
                    [movie |-> mapSupabaseMovieToTmdb(input.movie),
                     details |-> mapSupabaseMovieToTmdbDetails(
                                     input.movie, input.categories),
                     routeId |-> getMovieRouteId(
                                     mapSupabaseMovieToTmdb(input.movie)),
                     primary |-> TmdbMovie(n),
                     primaryRouteId |-> getMovieRouteId(TmdbMovie(n))], 0)]
    /\ last' = Step("mapped")
    /\ UNCHANGED <<env, phase, data, loading, error, inflight, tmdbRequests,
                   storeRequests, origin, others>>

Unmount ==
    /\ phase = "mounted"
    /\ phase' = "unmounted"
    /\ timers' = clearTimeout(timers, debounceTimer)
    /\ burst' = [burst EXCEPT !.cancelled = @ + (IF windowOpen THEN 1 ELSE 0)]
    /\ last' = Step("unmount")
    /\ UNCHANGED <<env, data, loading, error, inflight, fetches, tmdbRequests,
                   storeRequests, origin, call, page, hasMore, movieId,
                   suggestions, query, debounceTimer>>

Next ==
    \/ HomeMount
    \/ HomeRefetch
    \/ HomePrimaryResolved
    \/ HomePrimaryRejected
    \/ HomeStoreSettled
    \/ DbHomeMount
    \/ DbHomeRefetch
    \/ DbHomeSettled
    \/ ListMount
    \/ ListRefetch
    \/ ListLoadMore
    \/ ListSettled
    \/ DbListMount
    \/ DbListRefetch
    \/ DbListSettled
    \/ DetailsMount
    \/ DetailsRefetch
    \/ DetailsParamChange
    \/ TmdbDetailsSettled
    \/ DbDetailsSettled
    \/ SearchMount
    \/ SearchCall
    \/ SearchRefetch
    \/ SearchTimerFired
    \/ SearchSettled
    \/ SearchLoadMore
    \/ SearchMoreSettled
    \/ DbSearchTimerFired
    \/ DbSearchSettled
    \/ ClientListQuery
    \/ ClientGetMovieById
    \/ ClientSearchMovies
    \/ ClientGetCategoryWithMovies
    \/ ClientGetMovieCategories
    \/ ClientGetMoviesByCategory
    \/ ClientGetHomeScreenData
    \/ ClientTmdbSearchMovies
    \/ MapperApply
    \/ Unmount

Spec == Init /\ [][Next]_vars

\* every request in flight settles: it succeeds, fails or times out
Settle ==
    \/ HomePrimaryResolved
    \/ HomePrimaryRejected
    \/ HomeStoreSettled
    \/ DbHomeSettled
    \/ ListSettled
    \/ DbListSettled
    \/ TmdbDetailsSettled
    \/ DbDetailsSettled
    \/ SearchSettled
    \/ SearchMoreSettled
    \/ DbSearchSettled

FairSpec == Spec /\ WF_vars(Settle)

\* ------------------------------------------------------------------ claims
SecondaryOps == ListOps \cup {"getMovieById", "searchMovies",
                    "getCategoryWithMovies", "getMovieCategories",
                    "getMoviesByCategory", "getHomeScreenData"}

\* C1: after a useHomeData cycle the four lists in data all came from one
\* path: all from primary responses, or all from the substituted path.
C1_HomeListsFromOnePath ==
    hook = "home" => \A j, k \in HomeCalls : origin[j] = origin[k]

\* C2: when the primary batch failed and the store path failed too, the cycle
\* ends with an error string, loading false and data as it was.
C2_BothFailedKeepsDataSetsError ==
    [][(hook = "home" /\ isMounted /\ last'.op = "homeFallbackDone"
          /\ last'.failed)
       => (error' # NULL /\ loading' = FALSE /\ data' = data)]_vars

\* C3: a call of a secondary client operation never rejects, whatever the
\* store does; a single-query operation gives the store's data or the fallback.
C3_SecondaryClientNeverRejects ==
    call.op \in SecondaryOps =>
        /\ call.result.status = "fulfilled"
        /\ call.single =>
            \/ call.result.value = call.fallback
            \/ /\ call.answer.data # None
               /\ call.result.value = call.answer.data[1]

C3_Witness ==
    /\ configured
    /\ call.op = "getMovieById"
    /\ call.answer.thrown
    /\ call.result.status = "fulfilled"
    /\ call.result.issued = 1

\* C4: with the store not configured no query is ever issued, and every
\* secondary client operation resolves to its fallback.
C4_UnconfiguredGivesFallbackNoQuery ==
    ~configured =>
        /\ storeRequests = 0
        /\ call.op \in SecondaryOps =>
            /\ call.result.status = "fulfilled"
            /\ call.result.value = call.fallback
            /\ call.result.issued = 0

C4_Witness ==
    /\ ~configured
    /\ call.op = "getMoviesByCategory"
    /\ call.result.value = <<>>

\* C5: a burst of non-blank search calls, each inside the window the previous
\* one opened, leaves one pending timeout carrying the latest text, so every
\* burst that is not cancelled issues one searchMovies call, for its final
\* text.
C5_BurstIssuesOneRequestFinalText ==
    hook \in SearchHooks =>
        /\ Cardinality(timers) <= 1
        /\ \A t \in timers : t.id = debounceTimer /\ t.text = query
        /\ burst.fired + burst.cancelled + Cardinality(timers) = burst.started
        /\ last.op = "timerFired" => last.text = query

C5_Witness ==
    /\ hook \in SearchHooks
    /\ fetches = 3
    /\ burst.started = 1 /\ burst.cancelled = 0 /\ burst.fired = 1
    /\ last.op = "timerFired"
    /\ last.text = <<"a", "b">>

\* C6: search with an empty or whitespace-only text leaves no pending timeout,
\* empties data and suggestions and issues no request; searchMovies of either
\* client answers a blank query with an empty result and no request.
C6_BlankSearchCancelsAndIssuesNothing ==
    [][/\ (hook \in SearchHooks /\ last'.op \in {"search", "searchBlank"}
             /\ fetches' = fetches + 1 /\ Trim(last'.text) = <<>>)
          => /\ data' = <<>>
             /\ suggestions' = <<>>
             /\ timers' = {}
             /\ UNCHANGED <<tmdbRequests, storeRequests, inflight>>
       /\ (hook = "client" /\ fetches' = fetches + 1
             /\ call'.op \in {"searchMovies", "tmdbSearch"}
             /\ Trim(last'.text) = <<>>)
          => /\ call'.result.status = "fulfilled"
             /\ call'.result.issued = 0
             /\ call'.result.value \in {<<>>, EmptyPage}
             /\ UNCHANGED <<tmdbRequests, storeRequests>>]_vars

C6_Witness ==
    /\ hook \in SearchHooks
    /\ last.op = "searchBlank"
    /\ last.text = <<" ">>
    /\ burst.cancelled = 1
    /\ data = <<>>
    /\ timers = {}

\* the results a source can give for a text
ResultsFor(h, text) ==
    IF h = "search"
    THEN {CleanResults(RawResults(text, 1)), MockSearchPage(text).results}
    ELSE {StoreHits(text), <<>>}

\* C7: a search request that resolves while the hook is mounted commits the
\* results of its own text to data and suggestions, whatever the current
\* query is.
C7_StaleResponseStillCommits ==
    [][(hook \in SearchHooks /\ phase = "mounted"
          /\ last'.op = "searchSettled" /\ inflight' # inflight
          /\ ~last'.failed)
       => /\ data' \in ResultsFor(hook, last'.text)
          /\ suggestions' = Slice(data', SuggestionCount)]_vars

C7_Witness ==
    /\ hook \in SearchHooks
    /\ phase = "mounted"
    /\ last.op = "searchSettled"
    /\ last.text = <<"a">>
    /\ query = <<"a", "b">>
    /\ burst.fired = 2
    /\ inflight = {}
    /\ data # <<>>
    /\ data \in ResultsFor(hook, <<"a">>)
    /\ data \notin ResultsFor(hook, query)

\* C8: while a hook stays mounted and requests settle, loading does not stay
\* true: each cycle that set it is followed by a state with loading false.
C8_LoadingEventuallyFalse ==
    (phase = "mounted" /\ loading) ~> (~loading \/ phase = "unmounted")

C8_Witness ==
    /\ hook = "search"
    /\ phase = "mounted"
    /\ last.op = "moreSettled"
    /\ inflight = {}
    /\ ~loading

\* C9: once the hook is unmounted no step changes its data, error or loading
\* state, and the requests it started still settle.
C9_NoCommitAfterUnmount ==
    [][phase = "unmounted"
       => UNCHANGED <<data, error, loading, suggestions, page, hasMore>>]_vars

C9_Witness ==
    /\ phase = "unmounted"
    /\ hook = "dblist"
    /\ last.op = "dbListDone"
    /\ inflight = {}
    /\ loading

\* the route id names a movie neither source holds
AbsentMovie(id) ==
    \/ isDbMovie(id) /\ ~NoDbId(dbMovieId(id)) /\ ~StoreExists(dbMovieId(id)[1])
    \/ /\ ~NoTmdbId(tmdbMovieId(id))
       /\ ~TmdbExists(tmdbMovieId(id)[1])

\* C10: once the details of a movie neither source holds have been requested
\* and the requests have settled, the error says the movie was not found and
\* loading is false.
C10_AbsentMovieEndsNotFound ==
    (/\ hook = "details"
     /\ phase = "mounted"
     /\ AbsentMovie(movieId)
     /\ inflight = {})
    => (error = "Movie not found" /\ ~loading)

\* C11: in the details path a transport failure (store error response, thrown
\* network error) never ends in the message an absent movie gets.
C11_TransportFailureNeverNotFound ==
    (/\ hook = "details"
     /\ phase = "mounted"
     /\ last.op = "dbDetailsSettled"
     /\ last.failed)
    => error # "Movie not found"

\* C12: a useHomeData cycle whose four primary calls all failed ends with the
\* four lists taken from the store through the mapper and heroMovie the
\* first trending item, or the first popular item when trending is empty.
C12_AllPrimaryFailedGivesMappedStore ==
    (/\ hook = "home"
     /\ phase = "mounted"
     /\ \/ last.op = "homeFallbackDone" /\ last.allFailed
        \/ /\ last.op = "homePrimaryResolved"
           /\ \A k \in HomeCalls : origin[k] = "static")
    => /\ \A k \in HomeCalls : origin[k] = "secondary"
       /\ data.heroMovie = OrElse(First(data.trending), First(data.popular))

\* C13: an operation of the primary client whose request fails (timeout,
\* network error, non-2xx response) rejects; it never resolves with
\* substituted data.
C13_PrimaryClientRejectsOnFailure ==
    (/\ call.op = "tmdbSearch"
     /\ call.result.issued = 1
     /\ ~call.answer.ok)
    => call.result.status = "rejected"

\* the release year a reader of a mapped movie sees: none for the empty
\* date, else the number before the first hyphen
ReadYear(date) == IF date = <<>> THEN None ELSE Some(DecimalValue(YearPart(date)))

\* C14: for every row of the store, the mapped movie gives back the row's
\* title, rating (as vote_average) and release year (the year part of
\* release_date); overview is '' when description is null, and the mapped
\* details have budget 0.
C14_RoundTripReproducesRow ==
    (hook = "mapper" /\ call.op = "mapSupabaseMovieToTmdbDetails") =>
        LET row == input.movie
            movie == call.result.value.movie
        IN  /\ movie.title = row.title
            /\ Some(movie.vote_average) = row.rating
            /\ ReadYear(movie.release_date) = row.release_year
            /\ (row.description = None => movie.overview = "")
            /\ call.result.value.details.budget = 0


\* C15: toNumericId follows the identity/hash rule.  An id of digits maps to
\* its number; any other id maps to the absolute value of the fold
\* h := (31 * h + code) truncated to 32 bits after every character, a
\* non-negative integer: "7" gives 7, "ab" gives 97 * 31 + 98 = 3105,
\* "abcdefg" gives 1206291356 (the fold ends at -1206291356), "Aa" and "BB"
\* both give 2112.  Applying the mapper again gives the same ids.
C15_DerivedIdRule ==
    /\ [](hook = "mapper" /\ call.op = "mapSupabaseMovieToTmdbDetails" =>
            LET id == input.movie.id
                derived == call.result.value.movie.id
            IN  /\ id = <<55>> => derived = 7
                /\ id = <<97, 98>> => derived = 3105
                /\ id = <<97, 98, 99, 100, 101, 102, 103>>
                        => derived = 1206291356
                /\ id \in {<<65, 97>>, <<66, 66>>} => derived = 2112
                /\ derived >= 0
                /\ call.result.value.details.id = derived
                /\ call.result.value.movie.sourceId = id)
    /\ [][hook = "mapper" /\ call.op = "mapSupabaseMovieToTmdbDetails" =>
            call'.result.value.movie.id = call.result.value.movie.id]_vars

C15_Witness ==
    /\ hook = "mapper" /\ fetches = 2
    /\ input.movie.id = <<97, 98, 99, 100, 101, 102, 103>>
    /\ call.result.value.movie.id = 1206291356

\* C16: the mappers return for every row, whatever optional fields are
\* null: null poster_url and backdrop_url give null image paths, a null
\* release_year gives the empty release_date, a null duration gives a null
\* runtime, an absent category list gives no genres; a category list gives
\* genres of the same length and order, each with the category's derived
\* numeric id ("c" gives 99, "9" gives 9) and its name.
C16_MissingFieldsGiveDefaults ==
    (hook = "mapper" /\ call.op = "mapSupabaseMovieToTmdbDetails") =>
        LET row == input.movie
            movie == call.result.value.movie
            details == call.result.value.details
        IN  /\ call.result.status = "fulfilled"
            /\ row.poster_url = None =>
                   movie.poster_path = None /\ details.poster_path = None
            /\ row.backdrop_url = None =>
                   movie.backdrop_path = None /\ details.backdrop_path = None
            /\ row.release_year = None =>
                   movie.release_date = <<>> /\ details.release_date = <<>>
            /\ row.duration = None => details.runtime = None
            /\ input.categories = None => details.genres = <<>>
            /\ input.categories # None =>
                   LET list == input.categories[1]
                   IN  /\ Len(details.genres) = Len(list)
                       /\ \A i \in 1..Len(list) :
                             /\ details.genres[i].name = list[i].name
                             /\ details.genres[i].id = toNumericId(list[i].id)
                             /\ list[i].id = <<99>> => details.genres[i].id = 99
                             /\ list[i].id = <<57>> => details.genres[i].id = 9

C16_Witness ==
    /\ hook = "mapper" /\ call.op = "mapSupabaseMovieToTmdbDetails"
    /\ input.movie.poster_url = None /\ input.movie.release_year = None
    /\ input.movie.duration = None /\ input.categories # None
    /\ Len(call.result.value.details.genres) = 2
    /\ call.result.value.details.runtime = None

\* C17: two search cycles in a row for the same non-blank text, each settled
\* with no other request or timeout outstanding and both given the same
\* answer by an unchanged backend, leave the same data and suggestions.
C17_SameTextSameResults ==
    (/\ hook \in SearchHooks /\ phase = "mounted"
     /\ burst.prev.alone /\ burst.cur.alone
     /\ ~IsBlank(burst.cur.text)
     /\ burst.prev.text = burst.cur.text
     /\ burst.prev.answer = burst.cur.answer)
    => /\ burst.cur.data = burst.prev.data
       /\ burst.cur.suggestions = burst.prev.suggestions

C17_Witness ==
    /\ hook \in SearchHooks /\ phase = "mounted"
    /\ burst.prev.alone /\ burst.cur.alone
    /\ burst.prev.text = <<"a">> /\ burst.cur.text = <<"a">>
    /\ burst.prev.answer = burst.cur.answer
    /\ last.op = "searchSettled"
    /\ data = burst.prev.data /\ Len(data) > SuggestionCount
    /\ suggestions = burst.prev.suggestions /\ Len(suggestions) = SuggestionCount

\* C18: every query hook starts with loading = TRUE, and every fetch cycle
\* that has ended (nothing in flight, no timeout pending) leaves loading =
\* FALSE with data other than the initial empty value or with an error.
C18_LoadingThenDataOrError ==
    /\ (hook \in Hooks \ {"client", "mapper"} /\ phase = "constructed")
       => loading
    /\ (/\ hook \in Hooks \ {"client", "mapper"} /\ phase = "mounted"
        /\ inflight = {} /\ timers = {}
        /\ last.op \in {"homePrimaryResolved", "homeFallbackDone",
                        "dbHomeDone", "listSettled", "dbListDone",
                        "detailsSettled", "dbDetailsSettled",
                        "searchSettled", "moreSettled", "timerFired"})
       => /\ ~loading
          /\ data # InitData(hook, movieId) \/ error # NULL

\* C19: in the details hook, once every request has settled, the movie shown
\* without an error is the one the current id parameter names: a fetch for
\* an earlier id that is still in flight when the id changes does not decide
\* the final state.
C19_FinalStateShowsCurrentId ==
    (/\ hook = "details" /\ phase = "mounted" /\ ~isDbMovie(movieId)
     /\ ~NoTmdbId(tmdbMovieId(movieId))
     /\ inflight = {}
     /\ last.op = "detailsSettled"
     /\ error = NULL
     /\ data.movie # None
     /\ data.movie[1] \in {TmdbMovie(1), TmdbMovie(2)})
    => Some(data.movie[1].id) = tmdbMovieId(movieId)

\* C20: whenever the query of a search hook is empty or only whitespace, data
\* and suggestions are empty, also after a request for an earlier text
\* completes.
C20_BlankQueryShowsNothing ==
    (hook \in SearchHooks /\ IsBlank(query))
    => data = <<>> /\ suggestions = <<>>

\* C21: in useSearchMovies, data only holds results fetched for one query
\* text, and page is the number of pages of that text held in data: a
\* loadMore started for an older text neither appends to nor advances the
\* page of a newer text's results.
C21_DataOfOneTextPageCounts ==
    (hook = "search" /\ data # <<>>)
    => /\ \A i, j \in 1..Len(data) : data[i].title = data[j].title
       /\ page = Cardinality({data[i].id \div 100 : i \in 1..Len(data)})

\* C22: a failed fetch changes loading and error only.  When the catch
\* handler of a details hook runs, movie, videos, credits, similar and
\* trailer stay as they were; when a request of useMovieList fails, data,
\* page and hasMore stay as they were, and it is refetch itself that
\* empties data, before its request.
C22_FailedFetchKeepsData ==
    [][/\ (/\ hook = "details" /\ phase = "mounted" /\ inflight' # inflight
           /\ last'.op \in {"detailsSettled", "dbDetailsSettled"}
           /\ error' \in {"Failed to load details",
                          "Failed to load movie details"})
          => data' = data /\ ~loading'
       /\ (/\ hook = "list" /\ phase = "mounted"
           /\ last'.op = "listSettled" /\ last'.failed)
          => /\ data' = data /\ page' = page /\ hasMore' = hasMore
             /\ error' # NULL /\ ~loading'
       /\ (hook = "list" /\ last'.op = "refetch") => data' = <<>>]_vars

C22_Witness ==
    /\ hook = "details" /\ phase = "mounted"
    /\ last.op = "detailsSettled" /\ last.failed
    /\ error = "Failed to load details" /\ ~loading
    /\ data.movie = Some(TmdbMovie(1))
    /\ data.trailer # None

\* C23: in every state of a search hook, suggestions is the first
\* min(5, |data|) elements of data.
C23_SuggestionsArePrefixOfData ==
    hook \in SearchHooks => suggestions = Slice(data, SuggestionCount)

\* C24: in the search hooks, right after a search cycle settled with
\* success, and right after the query was cleared, error is null: an error
\* of an earlier failed search or loadMore does not persist.
C24_ErrorClearedBySuccess ==
    (/\ hook \in SearchHooks /\ phase = "mounted"
     /\ \/ last.op = "searchSettled" /\ ~last.failed
        \/ last.op = "searchBlank")
    => error = NULL

\* C25: in useMovieList, once every request has settled, data is the pages
\* 1..page of the service, each exactly once, and hasMore is page <
\* total_pages, whatever calls of mount, refetch and loadMore came before.
C25_DataIsPagesOnceEach ==
    (/\ hook = "list" /\ phase = "mounted" /\ inflight = {}
     /\ data # <<>>
     /\ \A i \in 1..Len(data) : data[i] # MockMovie)
    => /\ Len(data) = page
       /\ \A i \in 1..Len(data) : data[i] = TmdbMovie(i)
       /\ hasMore = (page < ListTotalPages)

\* C26: unmounting a search hook cancels its pending timeout: once
\* unmounted, no timeout is pending and no step issues a request to the
\* service or the store, also when search was called just before.
C26_NoRequestAfterUnmount ==
    /\ [](hook \in SearchHooks /\ phase = "unmounted" => timers = {})
    /\ [][(hook \in SearchHooks /\ phase = "unmounted")
          => (tmdbRequests' = tmdbRequests /\ storeRequests' = storeRequests
              /\ inflight' \subseteq inflight)]_vars

C26_Witness ==
    /\ hook \in SearchHooks /\ phase = "unmounted"
    /\ last.op = "unmount"
    /\ ~IsBlank(query)
    /\ burst.started = 1 /\ burst.cancelled = 1 /\ burst.fired = 0
    /\ timers = {} /\ inflight = {}
    /\ tmdbRequests = 0 /\ storeRequests = 0

C29_HomeAggregateSubstitutesPerQuery ==
    call.op = "getHomeScreenData" =>
        LET v == call.result.value
            rows(q) == IF configured /\ call.answer[q] = "rows"
                       THEN <<HomeRow(q)>> ELSE <<>>
        IN  /\ call.result.status = "fulfilled"
            /\ call.result.issued = (IF configured THEN 4 ELSE 0)
            /\ v.trending = rows("trending")
            /\ v.popular = rows("popular")
            /\ v.newReleases = rows("newReleases")
            /\ v.topRated = rows("topRated")
            /\ v.heroMovie = (IF v.trending # <<>> THEN Some(v.trending[1])
                              ELSE IF v.popular # <<>> THEN Some(v.popular[1])
                              ELSE None)

C29_Witness ==
    /\ call.op = "getHomeScreenData" /\ configured
    /\ call.answer["trending"] = "throw" /\ call.answer["popular"] = "rows"
    /\ call.answer["newReleases"] = "error" /\ call.answer["topRated"] = "rows"
    /\ call.result.status = "fulfilled" /\ call.result.issued = 4
    /\ call.result.value.trending = <<>>
    /\ call.result.value.topRated = <<StoreRowA>>
    /\ call.result.value.heroMovie = Some(StoreRowB)

====
